---- MODULE Spec2Model ----
(***************************************************************************)
(* Model of the EEPROM/Flash programmer front end, eepromgui.py: the four  *)
(* button handlers chipErase, showContent, uploadBin and downloadBin, and  *)
(* the serial Link (class Programmer) and memory device they drive.        *)
(* One behaviour is one invocation of one handler, from the button press   *)
(* to its return.  A step is one interaction with the Link together with   *)
(* the straight-line code around it.                                       *)
(***************************************************************************)
EXTENDS Integers, Sequences, FiniteSets

(***************************************************************************)
(* Bounds of the model.                                                    *)
(***************************************************************************)
\* how many entries of deviceSizes, from the first, the user may select
NumSizes == 1
\* longest run of empty reads the Link returns before a data byte
MaxEmpty == 1
\* the source files are those of length 0 .. MaxSmallLen and those of length
\* capacity - MaxNearFull .. capacity + 1
MaxSmallLen == 3
MaxNearFull == 0
\* a stored byte may be corrupted at an offset 0..MaxFaultAddr
MaxFaultAddr == 2
\* inputs of the chunk computation taken alone
MaxCursor == 70
MaxRemaining == 20

(***************************************************************************)
(* The selection widgets (module level of eepromgui.py).                   *)
(***************************************************************************)
\* a size string such as "32k" is the pair <<32, "k">> of sizestr[:-1] and
\* sizestr[-1]
deviceSizes ==
  << <<1, "k">>, <<2, "k">>, <<4, "k">>, <<8, "k">>, <<16, "k">>, <<32, "k">>,
     <<64, "k">>, <<128, "k">>, <<256, "k">>, <<512, "k">>, <<1, "M">> >>

deviceTypes == << "EEPROM", "Flash" >>

\* a page string such as "128 bytes/page" is its first word
devicePages == << 1, 2, 4, 8, 16, 32, 64, 128, 256, 512, 1024, 2048, 4096 >>

\* the family selector, were it the same for every family
FirstChar_fixed(s) == "E"

\* deviceType.get()[0]
FirstChar(s) == IF s = "EEPROM" THEN "E" ELSE "F"

getSelectedSize(sizestr) ==
  LET sizenum == sizestr[1]
      unit == sizestr[2]
  IN  IF unit = "b" THEN sizenum - 1
      ELSE IF unit = "k" THEN sizenum * 1024 - 1
      ELSE IF unit = "M" THEN sizenum * 1024 * 1024 - 1
      ELSE 0

(***************************************************************************)
(* Arithmetic of the handlers.                                             *)
(***************************************************************************)
\* a | b on non-negative integers
RECURSIVE BitOr(_, _)
BitOr(a, b) ==
  IF a = 0 THEN b
  ELSE IF b = 0 THEN a
  ELSE (IF a % 2 = 1 \/ b % 2 = 1 THEN 1 ELSE 0) + 2 * BitOr(a \div 2, b \div 2)

\* int(devicePage.get().split(" ")[0]) - 1
PageMask(page) == page - 1

\* the chunk length, were it not clipped to the remaining length
ChunkCount_unclipped(a1, mask, remaining) == BitOr(a1, mask) - a1 + 1

\* the length of the next page write: to the end of addr1's page, clipped
ChunkCount(a1, mask, remaining) ==
  LET c == BitOr(a1, mask) - a1 + 1
  IN  IF c > remaining THEN remaining ELSE c

Min(a, b) == IF a < b THEN a ELSE b

(***************************************************************************)
(* Data: bytes, the device's initial content, the source files.            *)
(***************************************************************************)
Byte == 0 .. 255

Pattern(seed, k) == (seed + 37 * k + (k \div 16)) % 256

MaxCapacity == getSelectedSize(deviceSizes[NumSizes]) + 1

\* what the device holds when the handler starts
InitialDevice == [k \in 0 .. MaxCapacity - 1 |-> Pattern(0, k)]

\* the content of the source file of a given length
FileContent(len) == [k \in 1 .. len |-> Pattern(101, k - 1)]

FileLengths(capacity) ==
  (0 .. MaxSmallLen) \cup (capacity - MaxNearFull .. capacity + 1)

Opcodes == {"e", "r", "p", "u", "l", "E", "F"}

NoCmd == [op |-> "none", a1 |-> -1, a2 |-> -1]

Cmd(o, x, y) == [op |-> o, a1 |-> x, a2 |-> y]

VARIABLES
  \* the selection
  deviceSize, deviceType, devicePage,
  \* the handler that runs, its position and how it ended
  handler, pc, outcome,
  \* the Link: eeprom.is_open, and what went over it
  linkOpen, nSent, lastCmd, nAcks, nPayload, nData, emptyRun,
  \* the device: its memory, its write protection, the range it is reading
  \* out, the offset of the byte that was corrupted (-1: none)
  dev, devLocked, rdPos, rdEnd, faultAt,
  \* the file f: content, position, open
  fileData, fpos, fOpen,
  \* locals of the handlers
  maxAddr, startAddr, endAddr, fileSize, dt, pagesize, datalength,
  byteswritten, addr1, addr2, count, total, i,
  \* showContent's output
  bytesline, asciiline, lines,
  \* the progress box value, -1 when there is no box
  progress,
  \* history of the page writes: how many, their summed length, last end
  nChunks, sumChunks, prevEnd

uiVars == << deviceSize, deviceType, devicePage >>
ctlVars == << handler, pc, outcome >>
linkVars == << linkOpen, nSent, lastCmd, nAcks, nPayload, nData, emptyRun >>
devVars == << dev, devLocked, rdPos, rdEnd, faultAt >>
fileVars == << fileData, fpos, fOpen >>
locVars == << maxAddr, startAddr, endAddr, fileSize, dt, pagesize, datalength,
              byteswritten, addr1, addr2, count, total, i >>
dumpVars == << bytesline, asciiline, lines >>
histVars == << nChunks, sumChunks, prevEnd >>

vars == << uiVars, ctlVars, linkVars, devVars, fileVars, locVars, dumpVars,
           progress, histVars >>

\* commands sent and not yet acknowledged
TotalSent ==
  nSent["e"] + nSent["r"] + nSent["p"] + nSent["u"] + nSent["l"]
  + nSent["E"] + nSent["F"]

Outstanding == TotalSent - nAcks

capacityBytes == getSelectedSize(deviceSize) + 1

(***************************************************************************)
(* The Link, class Programmer of module eeprom.                            *)
(***************************************************************************)
\* eeprom.sendcommand(o, x, y): one framed command
sendcommand(o, x, y) ==
  /\ nSent' = [nSent EXCEPT ![o] = @ + 1]
  /\ lastCmd' = Cmd(o, x, y)

\* eeprom.readline(): consume one acknowledgment line
readline == nAcks' = nAcks + 1

(***************************************************************************)
(* The device behind the Link.                                             *)
(***************************************************************************)
\* 'e': the whole memory is blank
DeviceErase == dev' = [k \in DOMAIN dev |-> 255]

\* the payload of the page write lastCmd, stored from its start address on;
\* an EEPROM takes it only while unlocked
DeviceStore(data) ==
  dev' = IF deviceType = "EEPROM" /\ devLocked
         THEN dev
         ELSE [k \in DOMAIN dev |->
                 IF k >= lastCmd.a1 /\ k < lastCmd.a1 + Len(data)
                 THEN data[k - lastCmd.a1 + 1]
                 ELSE dev[k]]

Init ==
  /\ deviceSize \in {deviceSizes[k] : k \in 1 .. NumSizes}
  /\ deviceType \in {deviceTypes[k] : k \in 1 .. Len(deviceTypes)}
  /\ devicePage \in {devicePages[k] : k \in 1 .. Len(devicePages)}
  /\ handler = "none" /\ pc = "idle" /\ outcome = "none"
  /\ linkOpen = FALSE
  /\ nSent = [o \in Opcodes |-> 0]
  /\ lastCmd = NoCmd
  /\ nAcks = 0 /\ nPayload = 0 /\ nData = 0 /\ emptyRun = 0
  /\ dev = InitialDevice
  /\ devLocked = TRUE
  /\ rdPos = 0 /\ rdEnd = -1 /\ faultAt = -1
  /\ fileData = << >> /\ fpos = 0 /\ fOpen = FALSE
  /\ maxAddr = 0 /\ startAddr = 0 /\ endAddr = 0 /\ fileSize = 0
  /\ dt = "" /\ pagesize = 0 /\ datalength = 0 /\ byteswritten = 0
  /\ addr1 = 0 /\ addr2 = 0 /\ count = 0 /\ total = 0 /\ i = 0
  /\ bytesline = << >> /\ asciiline = << >> /\ lines = << >>
  /\ progress = -1
  /\ nChunks = 0 /\ sumChunks = 0 /\ prevEnd = -1

(***************************************************************************)
(* chipErase                                                               *)
(***************************************************************************)
chipErase_notFound ==
  /\ pc = "idle"
  /\ handler' = "chipErase" /\ pc' = "returned" /\ outcome' = "notFound"
  /\ UNCHANGED << uiVars, linkVars, devVars, fileVars, locVars, dumpVars,
                  progress, histVars >>

chipErase_send ==
  /\ pc = "idle"
  /\ handler' = "chipErase" /\ pc' = "e_ack" /\ outcome' = "none"
  /\ linkOpen' = TRUE
  /\ sendcommand("e", -1, -1)
  /\ DeviceErase
  /\ UNCHANGED << uiVars, nAcks, nPayload, nData, emptyRun, devLocked, rdPos,
                  rdEnd, faultAt, fileVars, locVars, dumpVars, progress,
                  histVars >>

\* chipErase, were it to close the Link without awaiting the acknowledgment
chipErase_ack_noRead ==
  /\ pc = "e_ack"
  /\ linkOpen' = FALSE
  /\ pc' = "returned" /\ outcome' = "erased"
  /\ UNCHANGED << uiVars, handler, nSent, lastCmd, nAcks, nPayload, nData,
                  emptyRun, devVars, fileVars, locVars, dumpVars, progress,
                  histVars >>

chipErase_ack ==
  /\ pc = "e_ack"
  /\ readline
  /\ linkOpen' = FALSE
  /\ pc' = "returned" /\ outcome' = "erased"
  /\ UNCHANGED << uiVars, handler, nSent, lastCmd, nPayload, nData, emptyRun,
                  devVars, fileVars, locVars, dumpVars, progress, histVars >>

(***************************************************************************)
(* Reads from the Link: eeprom.read(1) returns one byte of the range the   *)
(* device is reading out, or nothing.                                      *)
(***************************************************************************)
\* the device takes a ranged read [x, y]
DeviceRead(x, y) == rdPos' = x /\ rdEnd' = y

DataReady == rdPos <= rdEnd /\ rdPos \in DOMAIN dev

\* eeprom.read(1) returned the byte dev[rdPos]
readByte ==
  /\ DataReady
  /\ rdPos' = rdPos + 1
  /\ nData' = nData + 1
  /\ emptyRun' = 0

\* eeprom.read(1) returned b''
readEmpty ==
  /\ emptyRun < MaxEmpty
  /\ emptyRun' = emptyRun + 1
  /\ UNCHANGED << rdPos, nData >>

(***************************************************************************)
(* Text of the dump, as code points.                                       *)
(***************************************************************************)
HexDigit(d) == IF d < 10 THEN 48 + d ELSE 97 + d - 10

\* '%0<width>x' % n
RECURSIVE Hex(_, _)
Hex(n, width) ==
  IF n < 16 /\ width <= 1 THEN << HexDigit(n) >>
  ELSE Append(Hex(n \div 16, width - 1), HexDigit(n % 16))

\* '%05x:  ' % startAddr
LineLabel(a) == Hex(a, 5) \o << 58, 32, 32 >>

\* '%02x ' % data[0]
ByteText(b) == Hex(b, 2) \o << 32 >>

\* the gutter, were the space not taken as printable
Gutter_noSpace(b) == IF b > 32 /\ b < 127 THEN b ELSE 46

\* chr(data[0]) if 31 < data[0] < 127, else '.'
Gutter(b) == IF b > 31 /\ b < 127 THEN b ELSE 46

(***************************************************************************)
(* showContent                                                             *)
(***************************************************************************)
showContent_notFound ==
  /\ pc = "idle"
  /\ handler' = "showContent" /\ pc' = "returned" /\ outcome' = "notFound"
  /\ UNCHANGED << uiVars, linkVars, devVars, fileVars, locVars, dumpVars,
                  progress, histVars >>

showContent_send ==
  /\ pc = "idle"
  /\ handler' = "showContent" /\ pc' = "s_line" /\ outcome' = "none"
  /\ linkOpen' = TRUE
  /\ startAddr' = 0
  /\ endAddr' = getSelectedSize(deviceSize)
  /\ progress' = 0
  /\ lines' = << >>
  /\ sendcommand("r", 0, getSelectedSize(deviceSize))
  /\ DeviceRead(0, getSelectedSize(deviceSize))
  /\ UNCHANGED << uiVars, nAcks, nPayload, nData, emptyRun, dev, devLocked, faultAt,
                  fileVars, maxAddr, fileSize, dt, pagesize, datalength,
                  byteswritten, addr1, addr2, count, total, i, bytesline,
                  asciiline, histVars >>

\* while (startAddr < endAddr): a new line
showContent_line ==
  /\ pc = "s_line"
  /\ startAddr < endAddr
  /\ bytesline' = LineLabel(startAddr)
  /\ asciiline' = << 32 >>
  /\ i' = 16
  /\ pc' = "s_read"
  /\ UNCHANGED << uiVars, handler, outcome, linkVars, devVars, fileVars,
                  maxAddr, startAddr, endAddr, fileSize, dt, pagesize,
                  datalength, byteswritten, addr1, addr2, count, total, lines,
                  progress, histVars >>

showContent_read ==
  /\ pc = "s_read"
  /\ i # 0
  /\ readByte
  /\ bytesline' = bytesline \o ByteText(dev[rdPos])
  /\ asciiline' = Append(asciiline, Gutter(dev[rdPos]))
  /\ i' = i - 1
  /\ UNCHANGED << uiVars, ctlVars, linkOpen, nSent, lastCmd, nAcks, nPayload,
                  dev, devLocked, rdEnd, faultAt, fileVars, maxAddr, startAddr, endAddr,
                  fileSize, dt, pagesize, datalength, byteswritten, addr1,
                  addr2, count, total, lines, progress, histVars >>

showContent_readEmpty ==
  /\ pc = "s_read"
  /\ i # 0
  /\ readEmpty
  /\ UNCHANGED << uiVars, ctlVars, linkOpen, nSent, lastCmd, nAcks, nPayload,
                  dev, devLocked, rdEnd, faultAt, fileVars, locVars, dumpVars, progress,
                  histVars >>

\* showContent, were its progress to count the line that comes next
showContent_endLine_ahead ==
  /\ pc = "s_read"
  /\ i = 0
  /\ lines' = Append(lines, bytesline \o asciiline)
  /\ startAddr' = startAddr + 16
  /\ progress' = ((startAddr + 32) * 100) \div endAddr
  /\ pc' = "s_line"
  /\ UNCHANGED << uiVars, handler, outcome, linkVars, devVars, fileVars,
                  maxAddr, endAddr, fileSize, dt, pagesize, datalength,
                  byteswritten, addr1, addr2, count, total, i, bytesline,
                  asciiline, histVars >>

\* the line is full
showContent_endLine ==
  /\ pc = "s_read"
  /\ i = 0
  /\ lines' = Append(lines, bytesline \o asciiline)
  /\ startAddr' = startAddr + 16
  /\ progress' = ((startAddr + 16) * 100) \div endAddr
  /\ pc' = "s_line"
  /\ UNCHANGED << uiVars, handler, outcome, linkVars, devVars, fileVars,
                  maxAddr, endAddr, fileSize, dt, pagesize, datalength,
                  byteswritten, addr1, addr2, count, total, i, bytesline,
                  asciiline, histVars >>

showContent_done ==
  /\ pc = "s_line"
  /\ ~(startAddr < endAddr)
  /\ progress' = -1
  /\ readline
  /\ linkOpen' = FALSE
  /\ pc' = "returned" /\ outcome' = "shown"
  /\ UNCHANGED << uiVars, handler, nSent, lastCmd, nPayload, nData, emptyRun,
                  devVars, fileVars, locVars, dumpVars, histVars >>

(***************************************************************************)
(* downloadBin                                                             *)
(***************************************************************************)
downloadBin_notFound ==
  /\ pc = "idle"
  /\ handler' = "downloadBin" /\ pc' = "returned" /\ outcome' = "notFound"
  /\ UNCHANGED << uiVars, linkVars, devVars, fileVars, locVars, dumpVars,
                  progress, histVars >>

\* the locals set before the file dialog
downloadBin_locals ==
  /\ startAddr' = 0
  /\ endAddr' = getSelectedSize(deviceSize)
  /\ count' = getSelectedSize(deviceSize) - 0 + 1
  /\ total' = getSelectedSize(deviceSize) - 0 + 1

\* asksaveasfilename returned no name
downloadBin_cancel ==
  /\ pc = "idle"
  /\ handler' = "downloadBin" /\ pc' = "returned" /\ outcome' = "cancelled"
  /\ linkOpen' = TRUE
  /\ downloadBin_locals
  /\ UNCHANGED << uiVars, nSent, lastCmd, nAcks, nPayload, nData, emptyRun,
                  devVars, fileVars, maxAddr, fileSize, dt, pagesize,
                  datalength, byteswritten, addr1, addr2, i, dumpVars,
                  progress, histVars >>

\* open(fileName, 'wb') raised
downloadBin_openFail ==
  /\ pc = "idle"
  /\ handler' = "downloadBin" /\ pc' = "returned" /\ outcome' = "openFailed"
  /\ linkOpen' = FALSE
  /\ downloadBin_locals
  /\ UNCHANGED << uiVars, nSent, lastCmd, nAcks, nPayload, nData, emptyRun,
                  devVars, fileVars, maxAddr, fileSize, dt, pagesize,
                  datalength, byteswritten, addr1, addr2, i, dumpVars,
                  progress, histVars >>

downloadBin_send ==
  /\ pc = "idle"
  /\ handler' = "downloadBin" /\ pc' = "d_read" /\ outcome' = "none"
  /\ linkOpen' = TRUE
  /\ downloadBin_locals
  /\ fileData' = << >> /\ fpos' = 0 /\ fOpen' = TRUE
  /\ progress' = 0
  /\ sendcommand("r", 0, getSelectedSize(deviceSize))
  /\ DeviceRead(0, getSelectedSize(deviceSize))
  /\ UNCHANGED << uiVars, nAcks, nPayload, nData, emptyRun, dev, devLocked, faultAt,
                  maxAddr, fileSize, dt, pagesize, datalength, byteswritten,
                  addr1, addr2, i, dumpVars, histVars >>

downloadBin_read ==
  /\ pc = "d_read"
  /\ count # 0
  /\ readByte
  /\ fileData' = Append(fileData, dev[rdPos])
  /\ fpos' = fpos + 1
  /\ count' = count - 1
  /\ progress' = ((total - (count - 1)) * 100) \div total
  /\ UNCHANGED << uiVars, ctlVars, linkOpen, nSent, lastCmd, nAcks, nPayload,
                  dev, devLocked, rdEnd, faultAt, fOpen, maxAddr, startAddr, endAddr,
                  fileSize, dt, pagesize, datalength, byteswritten, addr1,
                  addr2, total, i, dumpVars, histVars >>

\* downloadBin, were it to count a read down whether or not it returned data
downloadBin_readEmpty_counted ==
  /\ pc = "d_read"
  /\ count # 0
  /\ readEmpty
  /\ count' = count - 1
  /\ progress' = ((total - (count - 1)) * 100) \div total
  /\ UNCHANGED << uiVars, ctlVars, linkOpen, nSent, lastCmd, nAcks, nPayload,
                  dev, devLocked, rdEnd, faultAt, fileVars, maxAddr, startAddr,
                  endAddr, fileSize, dt, pagesize, datalength, byteswritten,
                  addr1, addr2, total, i, dumpVars, histVars >>

downloadBin_readEmpty ==
  /\ pc = "d_read"
  /\ count # 0
  /\ readEmpty
  /\ progress' = ((total - count) * 100) \div total
  /\ UNCHANGED << uiVars, ctlVars, linkOpen, nSent, lastCmd, nAcks, nPayload,
                  dev, devLocked, rdEnd, faultAt, fileVars, locVars, dumpVars, histVars >>

downloadBin_done ==
  /\ pc = "d_read"
  /\ count = 0
  /\ readline
  /\ fOpen' = FALSE
  /\ linkOpen' = FALSE
  /\ progress' = -1
  /\ pc' = "returned" /\ outcome' = "downloaded"
  /\ UNCHANGED << uiVars, handler, nSent, lastCmd, nPayload, nData, emptyRun,
                  devVars, fileData, fpos, locVars, dumpVars, histVars >>

(***************************************************************************)
(* uploadBin                                                               *)
(***************************************************************************)
\* the files the user may pick in the dialog
SourceFiles ==
  {FileContent(n) : n \in FileLengths(capacityBytes)}

\* f.read(n) at position fpos
fread(n) == SubSeq(fileData, fpos + 1, Min(fpos + n, Len(fileData)))

\* the capacity check, were it to compare with the last address
TooBig_lastAddr(start, size, maxA) == (start + size) > maxA

\* (startAddr + fileSize) > (maxAddr + 1)
TooBig(start, size, maxA) == (start + size) > (maxA + 1)

uploadBin_notFound ==
  /\ pc = "idle"
  /\ handler' = "uploadBin" /\ pc' = "returned" /\ outcome' = "notFound"
  /\ UNCHANGED << uiVars, linkVars, devVars, fileVars, locVars, dumpVars,
                  progress, histVars >>

\* askopenfilename returned no name
uploadBin_cancel ==
  /\ pc = "idle"
  /\ handler' = "uploadBin" /\ pc' = "returned" /\ outcome' = "cancelled"
  /\ linkOpen' = TRUE
  /\ maxAddr' = getSelectedSize(deviceSize)
  /\ startAddr' = 0
  /\ UNCHANGED << uiVars, nSent, lastCmd, nAcks, nPayload, nData, emptyRun,
                  devVars, fileVars, endAddr, fileSize, dt, pagesize,
                  datalength, byteswritten, addr1, addr2, count, total, i,
                  dumpVars, progress, histVars >>

\* open(fileName, 'rb') raised
uploadBin_openFail ==
  /\ pc = "idle"
  /\ handler' = "uploadBin" /\ pc' = "returned" /\ outcome' = "openFailed"
  /\ linkOpen' = FALSE
  /\ maxAddr' = getSelectedSize(deviceSize)
  /\ startAddr' = 0
  /\ UNCHANGED << uiVars, nSent, lastCmd, nAcks, nPayload, nData, emptyRun,
                  devVars, fileVars, endAddr, fileSize, dt, pagesize,
                  datalength, byteswritten, addr1, addr2, count, total, i,
                  dumpVars, progress, histVars >>

\* the file does not fit into the device
uploadBin_tooBig ==
  /\ pc = "idle"
  /\ \E file \in SourceFiles :
       /\ TooBig(0, Len(file), getSelectedSize(deviceSize))
       /\ fileData' = file
       /\ fileSize' = Len(file)
  /\ handler' = "uploadBin" /\ pc' = "returned" /\ outcome' = "tooBig"
  /\ fpos' = 0 /\ fOpen' = FALSE
  /\ linkOpen' = FALSE
  /\ maxAddr' = getSelectedSize(deviceSize)
  /\ startAddr' = 0
  /\ UNCHANGED << uiVars, nSent, lastCmd, nAcks, nPayload, nData, emptyRun,
                  devVars, endAddr, dt, pagesize, datalength, byteswritten,
                  addr1, addr2, count, total, i, dumpVars, progress,
                  histVars >>

\* the file fits: the device family selector is sent
uploadBin_select ==
  /\ pc = "idle"
  /\ \E file \in SourceFiles :
       /\ ~TooBig(0, Len(file), getSelectedSize(deviceSize))
       /\ fileData' = file
       /\ fileSize' = Len(file)
  /\ handler' = "uploadBin" /\ pc' = "u_selAck" /\ outcome' = "none"
  /\ fpos' = 0 /\ fOpen' = TRUE
  /\ linkOpen' = TRUE
  /\ maxAddr' = getSelectedSize(deviceSize)
  /\ startAddr' = 0
  /\ progress' = 0
  /\ dt' = FirstChar(deviceType)
  /\ sendcommand(FirstChar(deviceType), -1, -1)
  /\ UNCHANGED << uiVars, nAcks, nPayload, nData, emptyRun, devVars, endAddr,
                  pagesize, datalength, byteswritten, addr1, addr2, count,
                  total, i, dumpVars, histVars >>

\* uploadBin, were it to go on to the page writes without the unlock
uploadBin_selAck_noUnlock ==
  /\ pc = "u_selAck"
  /\ readline
  /\ pc' = "u_setup"
  /\ UNCHANGED << uiVars, handler, outcome, linkOpen, nSent, lastCmd, nPayload,
                  nData, emptyRun, devVars, fileVars, locVars, dumpVars,
                  progress, histVars >>

uploadBin_selAck ==
  /\ pc = "u_selAck"
  /\ readline
  /\ pc' = IF dt = "E" THEN "u_unlock" ELSE "u_setup"
  /\ UNCHANGED << uiVars, handler, outcome, linkOpen, nSent, lastCmd, nPayload,
                  nData, emptyRun, devVars, fileVars, locVars, dumpVars,
                  progress, histVars >>

\* eeprom.unlock(): the command
uploadBin_unlock ==
  /\ pc = "u_unlock"
  /\ sendcommand("u", -1, -1)
  /\ devLocked' = FALSE
  /\ pc' = "u_unlockAck"
  /\ UNCHANGED << uiVars, handler, outcome, linkOpen, nAcks, nPayload, nData,
                  emptyRun, dev, rdPos, rdEnd, faultAt, fileVars, locVars,
                  dumpVars, progress, histVars >>

\* eeprom.unlock(): its acknowledgment
uploadBin_unlockAck ==
  /\ pc = "u_unlockAck"
  /\ readline
  /\ pc' = "u_setup"
  /\ UNCHANGED << uiVars, handler, outcome, linkOpen, nSent, lastCmd, nPayload,
                  nData, emptyRun, devVars, fileVars, locVars, dumpVars,
                  progress, histVars >>

uploadBin_setup ==
  /\ pc = "u_setup"
  /\ pagesize' = PageMask(devicePage)
  /\ datalength' = fileSize
  /\ byteswritten' = 0
  /\ addr1' = startAddr
  /\ pc' = "u_loop"
  /\ UNCHANGED << uiVars, handler, outcome, linkVars, devVars, fileVars,
                  maxAddr, startAddr, endAddr, fileSize, dt, addr2, count,
                  total, i, dumpVars, progress, histVars >>

\* while (datalength): the page write command of the next chunk
uploadBin_page ==
  /\ pc = "u_loop"
  /\ datalength # 0
  /\ count' = ChunkCount(addr1, pagesize, datalength)
  /\ addr2' = addr1 + count' - 1
  /\ sendcommand("p", addr1, addr2')
  /\ pc' = "u_payload"
  /\ UNCHANGED << uiVars, handler, outcome, linkOpen, nAcks, nPayload, nData,
                  emptyRun, devVars, fileVars, maxAddr, startAddr, endAddr,
                  fileSize, dt, pagesize, datalength, byteswritten, addr1,
                  total, i, dumpVars, progress, histVars >>

\* eeprom.write(f.read(count))
uploadBin_payload ==
  /\ pc = "u_payload"
  /\ DeviceStore(fread(count))
  /\ fpos' = fpos + Len(fread(count))
  /\ nPayload' = nPayload + 1
  /\ byteswritten' = byteswritten + count
  /\ progress' = ((byteswritten + count) * 100) \div fileSize
  /\ pc' = "u_pageAck"
  /\ UNCHANGED << uiVars, handler, outcome, linkOpen, nSent, lastCmd, nAcks,
                  nData, emptyRun, devLocked, rdPos, rdEnd, faultAt, fileData,
                  fOpen, maxAddr, startAddr, endAddr, fileSize, dt, pagesize,
                  datalength, addr1, addr2, count, total, i, dumpVars,
                  histVars >>

\* uploadBin, were the next chunk to start at the end address of the last one
uploadBin_pageAck_overlap ==
  /\ pc = "u_pageAck"
  /\ readline
  /\ addr1' = addr2
  /\ datalength' = datalength - count
  /\ nChunks' = nChunks + 1
  /\ sumChunks' = sumChunks + (lastCmd.a2 - lastCmd.a1 + 1)
  /\ prevEnd' = lastCmd.a2
  /\ pc' = "u_loop"
  /\ UNCHANGED << uiVars, handler, outcome, linkOpen, nSent, lastCmd, nPayload,
                  nData, emptyRun, devVars, fileVars, maxAddr, startAddr,
                  endAddr, fileSize, dt, pagesize, byteswritten, addr2, count,
                  total, i, dumpVars, progress >>

\* uploadBin, were it not to await the acknowledgment of a page write
uploadBin_pageAck_noRead ==
  /\ pc = "u_pageAck"
  /\ addr1' = addr1 + count
  /\ datalength' = datalength - count
  /\ nChunks' = nChunks + 1
  /\ sumChunks' = sumChunks + (lastCmd.a2 - lastCmd.a1 + 1)
  /\ prevEnd' = lastCmd.a2
  /\ pc' = "u_loop"
  /\ UNCHANGED << uiVars, handler, outcome, linkVars, devVars, fileVars,
                  maxAddr, startAddr, endAddr, fileSize, dt, pagesize,
                  byteswritten, addr2, count, total, i, dumpVars, progress >>

uploadBin_pageAck ==
  /\ pc = "u_pageAck"
  /\ readline
  /\ addr1' = addr1 + count
  /\ datalength' = datalength - count
  /\ nChunks' = nChunks + 1
  /\ sumChunks' = sumChunks + (lastCmd.a2 - lastCmd.a1 + 1)
  /\ prevEnd' = lastCmd.a2
  /\ pc' = "u_loop"
  /\ UNCHANGED << uiVars, handler, outcome, linkOpen, nSent, lastCmd, nPayload,
                  nData, emptyRun, devVars, fileVars, maxAddr, startAddr,
                  endAddr, fileSize, dt, pagesize, byteswritten, addr2, count,
                  total, i, dumpVars, progress >>

\* uploadBin, were it to go on to the verification without the lock
uploadBin_written_noLock ==
  /\ pc = "u_loop"
  /\ datalength = 0
  /\ pc' = "u_seek"
  /\ UNCHANGED << uiVars, handler, outcome, linkVars, devVars, fileVars,
                  locVars, dumpVars, progress, histVars >>

\* the loop is left
uploadBin_written ==
  /\ pc = "u_loop"
  /\ datalength = 0
  /\ pc' = IF dt = "E" THEN "u_lock" ELSE "u_seek"
  /\ UNCHANGED << uiVars, handler, outcome, linkVars, devVars, fileVars,
                  locVars, dumpVars, progress, histVars >>

\* uploadBin, were the unlock sent a second time in place of the lock
uploadBin_lock_unlocks ==
  /\ pc = "u_lock"
  /\ sendcommand("u", -1, -1)
  /\ devLocked' = FALSE
  /\ pc' = "u_lockAck"
  /\ UNCHANGED << uiVars, handler, outcome, linkOpen, nAcks, nPayload, nData,
                  emptyRun, dev, rdPos, rdEnd, faultAt, fileVars, locVars,
                  dumpVars, progress, histVars >>

\* eeprom.lock(): the command
uploadBin_lock ==
  /\ pc = "u_lock"
  /\ sendcommand("l", -1, -1)
  /\ devLocked' = TRUE
  /\ pc' = "u_lockAck"
  /\ UNCHANGED << uiVars, handler, outcome, linkOpen, nAcks, nPayload, nData,
                  emptyRun, dev, rdPos, rdEnd, faultAt, fileVars, locVars,
                  dumpVars, progress, histVars >>

\* eeprom.lock(): its acknowledgment
uploadBin_lockAck ==
  /\ pc = "u_lockAck"
  /\ readline
  /\ pc' = "u_seek"
  /\ UNCHANGED << uiVars, handler, outcome, linkOpen, nSent, lastCmd, nPayload,
                  nData, emptyRun, devVars, fileVars, locVars, dumpVars,
                  progress, histVars >>

\* the offsets at which a stored byte may be corrupted before verification
FaultOffsets == {k \in 0 .. MaxFaultAddr : k < byteswritten}

\* the device's content decays in one byte of the written range
DeviceFault ==
  /\ pc = "u_seek"
  /\ faultAt = -1
  /\ \E k \in FaultOffsets :
       /\ dev' = [dev EXCEPT ![k] = (@ + 128) % 256]
       /\ faultAt' = k
  /\ UNCHANGED << uiVars, ctlVars, linkVars, devLocked, rdPos, rdEnd, fileVars,
                  locVars, dumpVars, progress, histVars >>

\* the verification's ranged read
uploadBin_verify ==
  /\ pc = "u_seek"
  /\ fpos' = 0
  /\ endAddr' = startAddr + byteswritten - 1
  /\ count' = byteswritten
  /\ sendcommand("r", startAddr, startAddr + byteswritten - 1)
  /\ DeviceRead(startAddr, startAddr + byteswritten - 1)
  /\ pc' = "u_verify"
  /\ UNCHANGED << uiVars, handler, outcome, linkOpen, nAcks, nPayload, nData,
                  emptyRun, dev, devLocked, faultAt, fileData, fOpen, maxAddr,
                  startAddr, fileSize, dt, pagesize, datalength, byteswritten,
                  addr1, addr2, total, i, dumpVars, progress, histVars >>

\* uploadBin, were a byte accepted without being compared
uploadBin_match_any ==
  /\ pc = "u_verify"
  /\ count # 0
  /\ readByte
  /\ fpos' = fpos + Len(fread(1))
  /\ count' = count - 1
  /\ UNCHANGED << uiVars, ctlVars, linkOpen, nSent, lastCmd, nAcks, nPayload,
                  dev, devLocked, rdEnd, faultAt, fileData, fOpen, maxAddr,
                  startAddr, endAddr, fileSize, dt, pagesize, datalength,
                  byteswritten, addr1, addr2, total, i, dumpVars, progress,
                  histVars >>

\* data == f.read(1)
uploadBin_match ==
  /\ pc = "u_verify"
  /\ count # 0
  /\ readByte
  /\ << dev[rdPos] >> = fread(1)
  /\ fpos' = fpos + Len(fread(1))
  /\ count' = count - 1
  /\ UNCHANGED << uiVars, ctlVars, linkOpen, nSent, lastCmd, nAcks, nPayload,
                  dev, devLocked, rdEnd, faultAt, fileData, fOpen, maxAddr,
                  startAddr, endAddr, fileSize, dt, pagesize, datalength,
                  byteswritten, addr1, addr2, total, i, dumpVars, progress,
                  histVars >>

\* uploadBin, were it to note the failure and go on reading
uploadBin_mismatch_goOn ==
  /\ pc = "u_verify"
  /\ count # 0
  /\ readByte
  /\ << dev[rdPos] >> # fread(1)
  /\ fpos' = fpos + Len(fread(1))
  /\ count' = count - 1
  /\ outcome' = "verifyFailed"
  /\ UNCHANGED << uiVars, handler, pc, linkOpen, nSent, lastCmd, nAcks,
                  nPayload, dev, devLocked, rdEnd, faultAt, fileData, fOpen,
                  maxAddr, startAddr, endAddr, fileSize, dt, pagesize,
                  datalength, byteswritten, addr1, addr2, total, i, dumpVars,
                  progress, histVars >>

\* data != f.read(1)
uploadBin_mismatch ==
  /\ pc = "u_verify"
  /\ count # 0
  /\ readByte
  /\ << dev[rdPos] >> # fread(1)
  /\ fpos' = fpos + Len(fread(1))
  /\ progress' = -1
  /\ fOpen' = FALSE
  /\ linkOpen' = FALSE
  /\ pc' = "returned" /\ outcome' = "verifyFailed"
  /\ UNCHANGED << uiVars, handler, nSent, lastCmd, nAcks, nPayload, dev,
                  devLocked, rdEnd, faultAt, fileData, locVars, dumpVars,
                  histVars >>

\* uploadBin, were an empty read taken as the end of the data
uploadBin_readEmpty_ends ==
  /\ pc = "u_verify"
  /\ count # 0
  /\ readEmpty
  /\ count' = 0
  /\ UNCHANGED << uiVars, ctlVars, linkOpen, nSent, lastCmd, nAcks, nPayload,
                  dev, devLocked, rdEnd, faultAt, fileVars, maxAddr, startAddr,
                  endAddr, fileSize, dt, pagesize, datalength, byteswritten,
                  addr1, addr2, total, i, dumpVars, progress, histVars >>

\* uploadBin, were the file read before the Link's byte is looked at
uploadBin_readEmpty_advances ==
  /\ pc = "u_verify"
  /\ count # 0
  /\ readEmpty
  /\ fpos' = fpos + Len(fread(1))
  /\ UNCHANGED << uiVars, ctlVars, linkOpen, nSent, lastCmd, nAcks, nPayload,
                  dev, devLocked, rdEnd, faultAt, fileData, fOpen, locVars,
                  dumpVars, progress, histVars >>

uploadBin_readEmpty ==
  /\ pc = "u_verify"
  /\ count # 0
  /\ readEmpty
  /\ UNCHANGED << uiVars, ctlVars, linkOpen, nSent, lastCmd, nAcks, nPayload,
                  dev, devLocked, rdEnd, faultAt, fileVars, locVars, dumpVars,
                  progress, histVars >>

uploadBin_done ==
  /\ pc = "u_verify"
  /\ count = 0
  /\ readline
  /\ fOpen' = FALSE
  /\ linkOpen' = FALSE
  /\ progress' = -1
  /\ pc' = "returned" /\ outcome' = "written"
  /\ UNCHANGED << uiVars, handler, nSent, lastCmd, nPayload, nData, emptyRun,
                  devVars, fileData, fpos, locVars, dumpVars, histVars >>

Next ==
  \/ chipErase_notFound
  \/ chipErase_send
  \/ chipErase_ack
  \/ showContent_notFound
  \/ showContent_send
  \/ showContent_line
  \/ showContent_read
  \/ showContent_readEmpty
  \/ showContent_endLine
  \/ showContent_done
  \/ downloadBin_notFound
  \/ downloadBin_cancel
  \/ downloadBin_openFail
  \/ downloadBin_send
  \/ downloadBin_read
  \/ downloadBin_readEmpty
  \/ downloadBin_done
  \/ uploadBin_notFound
  \/ uploadBin_cancel
  \/ uploadBin_openFail
  \/ uploadBin_tooBig
  \/ uploadBin_select
  \/ uploadBin_selAck
  \/ uploadBin_unlock
  \/ uploadBin_unlockAck
  \/ uploadBin_setup
  \/ uploadBin_page
  \/ uploadBin_payload
  \/ uploadBin_pageAck
  \/ uploadBin_written
  \/ uploadBin_lock
  \/ uploadBin_lockAck
  \/ DeviceFault
  \/ uploadBin_verify
  \/ uploadBin_match
  \/ uploadBin_mismatch
  \/ uploadBin_readEmpty
  \/ uploadBin_done

Spec == Init /\ [][Next]_vars

\* The handler keeps running, and the Link gives every byte and every
\* acknowledgment after a run of at most MaxEmpty empty reads.
\* from the selection the option menus start with for family and page size
\* (deviceTypes[0], devicePages[7])
InitLive == Init /\ deviceType = deviceTypes[1] /\ devicePage = devicePages[8]

SpecLive == InitLive /\ [][Next]_vars /\ WF_vars(Next)

(***************************************************************************)
(* The chunk computation of uploadBin taken alone, on every cursor,        *)
(* remaining length and page size of the bounds.                           *)
(***************************************************************************)
InitPager ==
  /\ deviceSize = deviceSizes[1]
  /\ deviceType \in {deviceTypes[k] : k \in 1 .. Len(deviceTypes)}
  /\ devicePage \in {devicePages[k] : k \in 1 .. Len(devicePages)}
  /\ handler = "uploadBin" /\ pc = "pager" /\ outcome = "none"
  /\ linkOpen = TRUE
  /\ nSent = [o \in Opcodes |-> 0]
  /\ lastCmd = NoCmd
  /\ nAcks = 0 /\ nPayload = 0 /\ nData = 0 /\ emptyRun = 0
  /\ dev = InitialDevice
  /\ devLocked = TRUE
  /\ rdPos = 0 /\ rdEnd = -1 /\ faultAt = -1
  /\ fileData = << >> /\ fpos = 0 /\ fOpen = FALSE
  /\ maxAddr = 0 /\ startAddr = 0 /\ endAddr = 0 /\ fileSize = 0
  /\ dt = FirstChar(deviceType)
  /\ pagesize = PageMask(devicePage)
  /\ datalength \in 1 .. MaxRemaining
  /\ byteswritten = 0
  /\ addr1 \in 0 .. MaxCursor
  /\ addr2 = 0 /\ count = 0 /\ total = 0 /\ i = 0
  /\ bytesline = << >> /\ asciiline = << >> /\ lines = << >>
  /\ progress = 0
  /\ nChunks = 0 /\ sumChunks = 0 /\ prevEnd = -1

\* lines 173-176 of uploadBin
nextChunk ==
  /\ pc = "pager"
  /\ count' = ChunkCount(addr1, pagesize, datalength)
  /\ addr2' = addr1 + count' - 1
  /\ pc' = "paged"
  /\ UNCHANGED << uiVars, handler, outcome, linkVars, devVars, fileVars,
                  maxAddr, startAddr, endAddr, fileSize, dt, pagesize,
                  datalength, byteswritten, addr1, total, i, dumpVars,
                  progress, histVars >>

NextPager == nextChunk

SpecPager == InitPager /\ [][NextPager]_vars

(***************************************************************************)
(* Properties.                                                             *)
(***************************************************************************)
\* a chunk has been computed and not yet been accounted for
ChunkComputed == pc \in {"paged", "u_payload"}

\* C1: the chunk length computed for a cursor addr1 >= 0, a remaining length
\* datalength >= 1 and a page size that is a power of two is at least 1 and at
\* most datalength, and the chunk's first and last address addr1 and
\* addr2 = addr1 + count - 1 lie in the same page.
C1_ChunkWithinPage ==
  ChunkComputed =>
    /\ 1 <= count
    /\ count <= datalength
    /\ addr2 = addr1 + count - 1
    /\ addr1 \div devicePage = addr2 \div devicePage

\* a chunk that is cut by the end of its page, not by the remaining length
C1_Witness ==
  /\ pc = "paged"
  /\ devicePage = 16
  /\ addr1 = 37
  /\ datalength = 20
  /\ count = 11
  /\ addr2 = 47

\* the handler has returned
Returned(h) == handler = h /\ pc = "returned"

\* uploadBin has left the page write loop
PastLoop ==
  /\ handler = "uploadBin"
  /\ \/ pc \in {"u_lock", "u_lockAck", "u_seek", "u_verify"}
     \/ pc = "returned" /\ outcome \in {"written", "verifyFailed"}

\* C2: the page writes of an upload are contiguous: the first starts at
\* address 0, each next one at the end address of the one before plus 1, none
\* is empty; their lengths add up to what has been taken from the file, and
\* when the loop is left they add up to the file's length, with
\* byteswritten = fileSize and datalength = 0.
C2_ChunksCoverFile ==
  /\ pc \in {"u_payload", "u_pageAck"} =>
       /\ lastCmd.op = "p"
       /\ lastCmd.a1 = prevEnd + 1
       /\ lastCmd.a2 >= lastCmd.a1
       /\ lastCmd.a2 < Len(fileData)
  /\ pc = "u_loop" =>
       /\ sumChunks + datalength = Len(fileData)
       /\ datalength >= 0
       /\ prevEnd = sumChunks - 1
  /\ PastLoop =>
       /\ Len(fileData) <= capacityBytes
       /\ sumChunks = Len(fileData)
       /\ byteswritten = Len(fileData)
       /\ datalength = 0
       /\ prevEnd = Len(fileData) - 1

\* a full device written in more than one page
C2_Witness ==
  /\ PastLoop
  /\ Len(fileData) = capacityBytes
  /\ nChunks >= 2
  /\ sumChunks = capacityBytes

\* C3, as claimed: when a handler has returned, the Link is closed.
C3_LinkClosedOnReturn == pc = "returned" => ~linkOpen

\* C4: uploadBin rejects the file exactly when it is longer than the device's
\* capacity, and when it does nothing has gone over the Link: no command, no
\* payload, no read.
C4_CapacityCheck ==
  handler = "uploadBin" /\ outcome \notin {"notFound", "cancelled", "openFailed"}
    => /\ (outcome = "tooBig") = (Len(fileData) > capacityBytes)
       /\ outcome = "tooBig" =>
            /\ pc = "returned"
            /\ TotalSent = 0 /\ lastCmd = NoCmd
            /\ nPayload = 0 /\ nData = 0 /\ nAcks = 0

\* a file one byte longer than the device is rejected
C4_Witness ==
  /\ Returned("uploadBin")
  /\ outcome = "tooBig"
  /\ Len(fileData) = capacityBytes + 1

\* C5: in an upload to an EEPROM a page write is sent only after the unlock has
\* been acknowledged and before the lock; the lock is sent once every page
\* write has been acknowledged, and the verification's read only after the
\* lock.  In an upload to a Flash no unlock and no lock is sent.
C5_UnlockLockBracket ==
  handler = "uploadBin" =>
    /\ deviceType = "Flash" => nSent["u"] = 0 /\ nSent["l"] = 0
    /\ deviceType = "EEPROM" =>
         /\ nSent["u"] <= 1 /\ nSent["l"] <= 1
         /\ lastCmd.op = "p" =>
              nSent["u"] = 1 /\ nSent["l"] = 0 /\ nAcks >= 2
         /\ lastCmd.op = "l" =>
              /\ nSent["u"] = 1
              /\ datalength = 0
              /\ nAcks >= nSent["p"] + 2
              /\ nPayload = nSent["p"]
              /\ nSent["r"] = 0
         /\ lastCmd.op = "r" =>
              nSent["u"] = 1 /\ nSent["l"] = 1 /\ nAcks >= nSent["p"] + 3

\* an EEPROM upload of several pages that has come to its verification
C5_Witness ==
  /\ handler = "uploadBin"
  /\ deviceType = "EEPROM"
  /\ lastCmd.op = "r"
  /\ nSent["p"] >= 2
  /\ nSent["u"] = 1 /\ nSent["l"] = 1

\* the offsets of the written range at which the device differs from the file
Differing == {k \in 0 .. byteswritten - 1 : dev[k] # fileData[k + 1]}

\* an upload that came to its verification has returned
Verified ==
  Returned("uploadBin") /\ outcome \in {"written", "verifyFailed"}

\* C6: an upload during which no stored byte was corrupted ends with the
\* success outcome: every byte of the file has been read back from the device,
\* and the device holds the file at addresses 0 .. len - 1.
C6_RoundTrip ==
  Verified /\ faultAt = -1 =>
    /\ outcome = "written"
    /\ byteswritten = Len(fileData)
    /\ nData = Len(fileData)
    /\ \A k \in 0 .. Len(fileData) - 1 : dev[k] = fileData[k + 1]

\* a full device written, and different from what it held before
C6_Witness ==
  /\ Verified
  /\ faultAt = -1
  /\ outcome = "written"
  /\ Len(fileData) = capacityBytes
  /\ dev[capacityBytes - 1] # InitialDevice[capacityBytes - 1]

\* C7: when exactly one byte of the written range differs on the device, at
\* offset k, the verification fails at that offset: k bytes have been accepted,
\* the byte at k is the last one read from the Link and the last one taken
\* from the file, and nothing is read once the failure is reported.
C7_MismatchAtOffset ==
  Verified =>
    \A k \in Differing :
      Differing = {k} =>
        /\ outcome = "verifyFailed"
        /\ byteswritten - count = k
        /\ nData = k + 1
        /\ rdPos = startAddr + k + 1
        /\ fpos = k + 1
        /\ nAcks = TotalSent - 1
        /\ ~linkOpen

\* a failure at an offset after the first, with bytes left unread
C7_Witness ==
  /\ Verified
  /\ outcome = "verifyFailed"
  /\ Differing = {2}
  /\ byteswritten - count = 2
  /\ count > 1

\* C8: chipErase sends one command, 'e' without a range, and nothing else, and
\* reads one acknowledgment line and no data, after which the Link is closed.
C8_EraseOnce ==
  handler = "chipErase" /\ outcome # "notFound" =>
    /\ nSent["e"] = 1 /\ TotalSent = 1
    /\ lastCmd = Cmd("e", -1, -1)
    /\ nPayload = 0 /\ nData = 0
    /\ nAcks <= 1
    /\ linkOpen = (pc # "returned")
    /\ pc = "returned" => nAcks = 1

\* an erase that has returned
C8_Witness ==
  /\ Returned("chipErase")
  /\ outcome = "erased"
  /\ nAcks = 1
  /\ deviceType = "Flash"

\* the file holds the device's bytes 0 .. Len(fileData) - 1 in order
FileIsPrefix == \A k \in 1 .. Len(fileData) : fileData[k] = dev[k - 1]

\* C9: downloadBin sends one command, the read of 0 .. capacityBytes - 1; the
\* output file holds the data bytes received, in order, an empty read adding
\* nothing and not counting; the acknowledgment is read only once
\* capacityBytes bytes are in the file, and then the Link is closed.
C9_DownloadExact ==
  handler = "downloadBin" /\ outcome \in {"none", "downloaded"} =>
    /\ nSent["r"] = 1 /\ TotalSent = 1
    /\ lastCmd = Cmd("r", 0, capacityBytes - 1)
    /\ Len(fileData) = nData
    /\ Len(fileData) + count = capacityBytes
    /\ Len(fileData) > 0 => fileData[Len(fileData)] = dev[Len(fileData) - 1]
    /\ nAcks = IF pc = "returned" THEN 1 ELSE 0
    /\ pc = "returned" =>
         /\ Len(fileData) = capacityBytes
         /\ FileIsPrefix
         /\ ~linkOpen

\* a download that has returned
C9_Witness ==
  /\ Returned("downloadBin")
  /\ outcome = "downloaded"
  /\ Len(fileData) = capacityBytes
  /\ fileData[capacityBytes] = dev[capacityBytes - 1]

\* C10: at most one command is unacknowledged at any time; a page write is
\* acknowledged only after its payload, a ranged read only after its last
\* data byte.
C10_OneOutstanding ==
  /\ Outstanding \in {0, 1}
  /\ nPayload <= nSent["p"]
  /\ Outstanding = 0 => nPayload = nSent["p"]
  /\ Outstanding = 0 /\ lastCmd.op = "r" =>
       nData = lastCmd.a2 - lastCmd.a1 + 1

\* an upload of several pages with every command acknowledged
C10_Witness ==
  /\ Returned("uploadBin")
  /\ outcome = "written"
  /\ nSent["p"] >= 2
  /\ TotalSent = nAcks

\* C11, as claimed: every page write and every ranged read carries a range
\* with 0 <= start <= end < capacityBytes.
C11_RangeWithinDevice ==
  lastCmd.op \in {"p", "r"} =>
    /\ 0 <= lastCmd.a1
    /\ lastCmd.a1 <= lastCmd.a2
    /\ lastCmd.a2 < capacityBytes

\* C12: the value of the progress box, while there is one, is an integer of
\* 0 .. 100, and the divisor of every progress computation is positive where
\* the computation is made.
C12_ProgressPercent ==
  /\ progress # -1 => progress \in 0 .. 100
  /\ handler = "showContent" /\ pc \in {"s_line", "s_read"} => endAddr > 0
  /\ handler = "uploadBin" /\ pc = "u_payload" => fileSize > 0
  /\ handler = "downloadBin" /\ pc = "d_read" => total > 0

\* the dump has read its last line: the progress is at its end
C12_Witness ==
  /\ handler = "showContent"
  /\ pc = "s_line"
  /\ startAddr = capacityBytes
  /\ progress = 100

\* uploadBin has passed the file and capacity checks
Accepted ==
  /\ handler = "uploadBin"
  /\ pc # "idle"
  /\ outcome \notin {"notFound", "cancelled", "openFailed", "tooBig"}

\* C13: an upload that has passed its checks has sent one family selector,
\* 'E' for an EEPROM and 'F' for a Flash, as its first command, and any other
\* command only after the selector's acknowledgment was read.
C13_OneSelectorFirst ==
  Accepted =>
    /\ nSent["E"] = (IF deviceType = "EEPROM" THEN 1 ELSE 0)
    /\ nSent["F"] = (IF deviceType = "Flash" THEN 1 ELSE 0)
    /\ TotalSent = 1 => lastCmd = Cmd(FirstChar(deviceType), -1, -1)
    /\ pc = "u_selAck" => TotalSent = 1 /\ nAcks = 0
    /\ TotalSent > 1 => nAcks >= 1 /\ lastCmd.op \in {"u", "p", "l", "r"}
    /\ lastCmd.op \in {"u", "p"} => nAcks >= 1

\* a Flash upload that has sent page writes after its selector
C13_Witness ==
  /\ Accepted
  /\ deviceType = "Flash"
  /\ nSent["F"] = 1 /\ nSent["E"] = 0
  /\ lastCmd.op = "p"
  /\ nSent["p"] >= 2

\* the value of a hexadecimal digit given as a code point, -1 when it is none
DigitValue(c) ==
  IF c \in 48 .. 57 THEN c - 48
  ELSE IF c \in 97 .. 102 THEN c - 87
  ELSE -1

\* t is a text of hexadecimal digits
IsHex(t) == \A n \in 1 .. Len(t) : DigitValue(t[n]) >= 0

\* the number a text of hexadecimal digits stands for
RECURSIVE HexValue(_)
HexValue(t) ==
  IF t = << >> THEN 0
  ELSE 16 * HexValue(SubSeq(t, 1, Len(t) - 1)) + DigitValue(t[Len(t)])

\* a dump line for the 16 bytes of the device from the offset on: five digits
\* of offset, ':', two spaces, sixteen times two digits and a space, a space,
\* sixteen characters of gutter
LineShows(line, offset) ==
  /\ Len(line) = 73
  /\ IsHex(SubSeq(line, 1, 5))
  /\ HexValue(SubSeq(line, 1, 5)) = offset
  /\ SubSeq(line, 6, 8) = << 58, 32, 32 >>
  /\ line[57] = 32
  /\ \A j \in 0 .. 15 :
       /\ IsHex(SubSeq(line, 9 + 3 * j, 10 + 3 * j))
       /\ HexValue(SubSeq(line, 9 + 3 * j, 10 + 3 * j)) = dev[offset + j]
       /\ line[11 + 3 * j] = 32
       /\ line[58 + j] = (IF dev[offset + j] \in 32 .. 126
                          THEN dev[offset + j] ELSE 46)

\* C14: showContent sends one read of 0 .. capacityBytes - 1, takes 16 data
\* bytes per line and capacityBytes in all, none more, and leaves
\* capacityBytes / 16 lines, line n of which shows the offset 16 * n and the
\* device's bytes 16 * n .. 16 * n + 15 in order, with the bytes of
\* 0x20 .. 0x7E as themselves in the gutter and '.' for the others.
C14_DumpLines ==
  handler = "showContent" /\ outcome # "notFound" =>
    /\ TotalSent = 1
    /\ lastCmd = Cmd("r", 0, capacityBytes - 1)
    /\ nData <= capacityBytes
    /\ pc = "s_line" => nData = 16 * Len(lines) /\ startAddr = 16 * Len(lines)
    /\ pc = "s_read" => nData = 16 * Len(lines) + (16 - i)
    /\ pc = "returned" =>
         /\ nData = capacityBytes
         /\ rdPos = capacityBytes
         /\ 16 * Len(lines) = capacityBytes
         /\ \A n \in 1 .. Len(lines) : LineShows(lines[n], 16 * (n - 1))

\* a dump that has returned, with a space, a '~' and a DEL among its bytes
C14_Witness ==
  /\ Returned("showContent")
  /\ outcome = "shown"
  /\ 16 * Len(lines) = capacityBytes
  /\ \E k \in 0 .. capacityBytes - 1 : dev[k] = 32
  /\ \E k \in 0 .. capacityBytes - 1 : dev[k] = 126
  /\ \E k \in 0 .. capacityBytes - 1 : dev[k] = 127

\* C15: uploadBin reports success only when the verification's read was for
\* 0 .. byteswritten - 1, byteswritten bytes came from the device and as many
\* from the file, the device holds the file over that range, and every
\* command, the read included, was acknowledged; a reported mismatch ends the
\* handler, with a differing byte on the device, so that no success follows.
C15_SuccessMeansVerified ==
  handler = "uploadBin" =>
    /\ outcome = "written" =>
         /\ pc = "returned"
         /\ lastCmd = Cmd("r", 0, byteswritten - 1)
         /\ byteswritten = Len(fileData)
         /\ nData = byteswritten
         /\ fpos = byteswritten
         /\ count = 0
         /\ Differing = {}
         /\ nAcks = TotalSent
    /\ outcome = "verifyFailed" =>
         /\ pc = "returned"
         /\ Differing # {}

\* a success after a full verification of a file of several bytes
C15_Witness ==
  /\ Returned("uploadBin")
  /\ outcome = "written"
  /\ byteswritten = MaxSmallLen
  /\ nData = MaxSmallLen
  /\ nAcks = TotalSent

\* C16: when an upload that sent the unlock has returned, it has sent the lock
\* as well, and the device is write protected, also when the verification
\* failed.
C16_LockedOnReturn ==
  Returned("uploadBin") /\ nSent["u"] >= 1 =>
    /\ nSent["l"] = 1
    /\ nSent["u"] = 1
    /\ devLocked

\* an upload to an EEPROM whose verification failed
C16_Witness ==
  /\ Returned("uploadBin")
  /\ outcome = "verifyFailed"
  /\ deviceType = "EEPROM"
  /\ nSent["u"] = 1 /\ nSent["l"] = 1

\* C18: from the verification's read on, the file has been read as many bytes
\* as the Link has given, and while the loop runs that number is
\* byteswritten - count and the device's next byte is the one at the file's
\* position, however many empty reads there were.
C18_VerifyLockstep ==
  handler = "uploadBin" /\ lastCmd.op = "r" =>
    /\ fpos = nData
    /\ rdPos = startAddr + nData
    /\ pc = "u_verify" =>
         /\ fpos = byteswritten - count
         /\ count >= 0

\* the verification after two bytes and an empty read
C18_Witness ==
  /\ handler = "uploadBin"
  /\ pc = "u_verify"
  /\ emptyRun >= 1
  /\ fpos = 2
  /\ count = byteswritten - 2
  /\ count > 0

\* a handler is in one of its read loops
InReadLoop == pc \in {"d_read", "s_line", "s_read", "u_verify"}

\* the step is an empty read
EmptyRead == emptyRun' = emptyRun + 1

\* C17: when the Link gives every byte and the acknowledgment after finitely
\* many empty reads, a handler in a read loop (downloadBin, showContent, the
\* verification of uploadBin) comes to return with the Link closed; an empty
\* read leaves the handler in its loop with the same number of bytes to come
\* and nothing taken.
C17_ReadLoopsTerminate ==
  /\ InReadLoop ~> (pc = "returned" /\ ~linkOpen)
  /\ [][EmptyRead =>
          /\ pc' = pc
          /\ count' = count
          /\ i' = i
          /\ nData' = nData
          /\ fileData' = fileData
          /\ fpos' = fpos
          /\ lines' = lines]_vars

\* a download that met an empty read with bytes still to come
C17_Witness ==
  /\ handler = "downloadBin"
  /\ pc = "d_read"
  /\ emptyRun = MaxEmpty
  /\ count > 0
  /\ count < total

====
